---- MODULE Spec2Model ----
(***************************************************************************)
(* Model of the dragontoothmg move generator (movegen.go).                 *)
(*                                                                         *)
(* A bitboard (uint64) is modelled as the set of its set bits, a subset of *)
(* 0..63: bit i is square i, a1 = 0, h1 = 7, a8 = 56, h8 = 63.  Go's & is  *)
(* intersection, | is union, the complement ^x is Squares \ x, and a shift *)
(* moves every element and drops what leaves 0..63.                        *)
(***************************************************************************)
EXTENDS Integers, Sequences, FiniteSets, TLC

VARIABLES b, moves, before, pc, placed, query, result, observed, serialized, kstate

vars == <<b, moves, before, pc, placed, query, result, observed, serialized, kstate>>

(***************************************************************************)
(* Bounds of the model.                                                    *)
(***************************************************************************)
\* the number of pieces the position set-up adds to a base position
MaxPieces == 1

(***************************************************************************)
(* Squares and bit operations (math/bits and Go's shift semantics).        *)
(***************************************************************************)
Squares == 0..63

File(s) == s % 8

Rank(s) == s \div 8

\* 1 << n on a uint64: zero when the shift count is 64 or more
Bit(n) == IF n \in Squares THEN {n} ELSE {}

\* x << n
ShiftL(bb, n) == {s + n : s \in bb} \cap Squares

\* x >> n
ShiftR(bb, n) == {s - n : s \in bb} \cap Squares

\* bits.TrailingZeros64: index of the lowest set bit, 64 for zero
TrailingZeros64(bb) == IF bb = {} THEN 64 ELSE CHOOSE s \in bb : \A t \in bb : s <= t

\* the loop "for x != 0 { t := TrailingZeros64(x); x &= x - 1; ... }" visits
\* the set bits in increasing order
RECURSIVE BitSeq(_)
BitSeq(bb) ==
    IF bb = {} THEN <<>>
    ELSE LET t == TrailingZeros64(bb) IN <<t>> \o BitSeq(bb \ {t})

RECURSIVE Flatten(_)
Flatten(ss) == IF ss = <<>> THEN <<>> ELSE Head(ss) \o Flatten(Tail(ss))

(***************************************************************************)
(* Pieces and moves (types.go).                                            *)
(***************************************************************************)
Nothing == 0

Knight == 2

Queen == 5

NoMove == [from |-> 0, to |-> 0, promote |-> Nothing]

Setfrom(m, s) == [m EXCEPT !.from = s]

Setto(m, s) == [m EXCEPT !.to = s]

Setpromote(m, p) == [m EXCEPT !.promote = p]

(***************************************************************************)
(* Lookup tables (constants of the library): knight and king masks, and    *)
(* the magic-bitboard move tables, which map a square and the occupancy to *)
(* the squares a slider reaches, the first blocker of each ray included.   *)
(***************************************************************************)
OnBoard(f, r) == f \in 0..7 /\ r \in 0..7

Jump(s, df, dr) ==
    IF OnBoard(File(s) + df, Rank(s) + dr) THEN {s + df + 8 * dr} ELSE {}

knightMasks(s) ==
    Jump(s, 1, 2) \cup Jump(s, 2, 1) \cup Jump(s, 2, -1) \cup Jump(s, 1, -2) \cup
    Jump(s, -1, -2) \cup Jump(s, -2, -1) \cup Jump(s, -2, 1) \cup Jump(s, -1, 2)

kingMasks(s) ==
    Jump(s, 1, 0) \cup Jump(s, 1, 1) \cup Jump(s, 0, 1) \cup Jump(s, -1, 1) \cup
    Jump(s, -1, 0) \cup Jump(s, -1, -1) \cup Jump(s, 0, -1) \cup Jump(s, 1, -1)

\* the squares of one ray from s, up to and including the first occupied one
Ray(s, df, dr, occ) ==
    { s + k * (df + 8 * dr) :
        k \in { k \in 1..7 :
                  /\ OnBoard(File(s) + k * df, Rank(s) + k * dr)
                  /\ \A j \in 1..(k - 1) : (s + j * (df + 8 * dr)) \notin occ } }

\* magicMovesRook[s][(occ & magicRookBlockerMasks[s]) * magicNumberRook[s] >> magicRookShifts[s]]
magicMovesRook(s, occ) ==
    Ray(s, 1, 0, occ) \cup Ray(s, -1, 0, occ) \cup Ray(s, 0, 1, occ) \cup Ray(s, 0, -1, occ)

\* magicMovesBishop[s][(occ & magicBishopBlockerMasks[s]) * magicNumberBishop[s] >> magicBishopShifts[s]]
magicMovesBishop(s, occ) ==
    Ray(s, 1, 1, occ) \cup Ray(s, -1, 1, occ) \cup Ray(s, 1, -1, occ) \cup Ray(s, -1, -1, occ)

(***************************************************************************)
(* The attack oracle.                                                      *)
(***************************************************************************)
\* origin is a uint8: origin - 7 wraps modulo 256, so the guards
\* "origin-7 >= 0" and "origin-9 >= 0" are always true
PawnAttackerSquares(byBlack, origin) ==
    IF byBlack
    THEN Bit((origin + 7) % 256) \cup Bit((origin + 9) % 256)
    ELSE Bit((origin - 7) % 256) \cup Bit((origin - 9) % 256)

underDirectAttack(bd, byBlack, origin) ==
    LET allPieces == bd.white.all \cup bd.black.all
        opponentPieces == IF byBlack THEN bd.black ELSE bd.white
        knight_attackers == knightMasks(origin) \cap opponentPieces.knights
        diag_potential_attackers == magicMovesBishop(origin, allPieces) \cap opponentPieces.all
        diag_attackers ==
            diag_potential_attackers \cap (opponentPieces.bishops \cup opponentPieces.queens)
        ortho_potential_attackers == magicMovesRook(origin, allPieces) \cap opponentPieces.all
        ortho_attackers ==
            ortho_potential_attackers \cap (opponentPieces.rooks \cup opponentPieces.queens)
        king_attackers == kingMasks(origin) \cap opponentPieces.kings
        pawn_attackers == PawnAttackerSquares(byBlack, origin) \cap opponentPieces.pawns
    IN  IF knight_attackers # {} THEN TRUE
        ELSE IF diag_attackers # {} THEN TRUE
        ELSE IF ortho_attackers # {} THEN TRUE
        ELSE IF king_attackers # {} THEN TRUE
        ELSE pawn_attackers # {}

\* anyUnderDirectAttack returning after its first iteration
anyUnderDirectAttack_FirstOnly(bd, byBlack, squares) ==
    underDirectAttack(bd, byBlack, squares[1])

\* squares is the sequence of the variadic arguments
anyUnderDirectAttack(bd, byBlack, squares) ==
    \E i \in 1..Len(squares) : underDirectAttack(bd, byBlack, squares[i])

(***************************************************************************)
(* Pawn generation.                                                        *)
(***************************************************************************)
\* 0xFF000000
fourthFile == {s \in Squares : Rank(s) = 3}

\* 0xFF00000000
fifthFile == {s \in Squares : Rank(s) = 4}

\* 0x7F7F7F7F7F7F7F7F
notHFile == {s \in Squares : File(s) # 7}

\* 0xFEFEFEFEFEFEFEFE
notAFile == {s \in Squares : File(s) # 0}

pawnPushBitboards(bd) ==
    LET free == (Squares \ bd.white.all) \cap (Squares \ bd.black.all)
    IN  IF bd.wtomove
        THEN LET targets == ShiftL(bd.white.pawns, 8) \cap free
             IN  [targets |-> targets,
                  doubleTargets |-> ShiftL(targets, 8) \cap fourthFile \cap free]
        ELSE LET targets == ShiftR(bd.black.pawns, 8) \cap free
             IN  [targets |-> targets,
                  doubleTargets |-> ShiftR(targets, 8) \cap fifthFile \cap free]

\* canPromote in pawnPushes and pawnCaptures
canPromote(bd, target) == IF bd.wtomove THEN target >= 56 ELSE target <= 7

\* the promotion loop with "i < Queen" for "i <= Queen"
PromotionMoves_NoQueen(move) == [i \in 1..(Queen - Knight) |-> Setpromote(move, Knight + i - 1)]

\* for i := Piece(Knight); i <= Queen; i++ { move.Setpromote(i); append }
PromotionMoves(move) == [i \in 1..(Queen - Knight + 1) |-> Setpromote(move, Knight + i - 1)]

\* the moves appended for one target: four promotions, or the move itself
AppendPawnMove(bd, move, target) ==
    IF canPromote(bd, target) THEN PromotionMoves(move) ELSE <<move>>

pawnPushes(bd, moveList) ==
    LET pb == pawnPushBitboards(bd)
        oneRankBack == IF bd.wtomove THEN -8 ELSE 8
        ts == BitSeq(pb.targets)
        ds == BitSeq(pb.doubleTargets)
        single == [i \in 1..Len(ts) |->
                     AppendPawnMove(bd, Setto(Setfrom(NoMove, ts[i] + oneRankBack), ts[i]), ts[i])]
        double == [i \in 1..Len(ds) |->
                     Setto(Setfrom(NoMove, ds[i] + 2 * oneRankBack), ds[i])]
    IN  moveList \o Flatten(single) \o double

\* pawnCaptureBitboards without the notAFile and notHFile masks
pawnCaptureBitboards_NoFileMask(bd) ==
    LET ep == IF bd.enpassant > 0 THEN Bit(bd.enpassant) ELSE {}
    IN  IF bd.wtomove
        THEN LET targets == ep \cup bd.black.all
                 ourpawns == bd.white.pawns
             IN  [east |-> ShiftL(ourpawns, 9) \cap targets,
                  west |-> ShiftL(ourpawns, 7) \cap targets]
        ELSE LET targets == ep \cup bd.white.all
                 ourpawns == bd.black.pawns
             IN  [east |-> ShiftR(ourpawns, 7) \cap targets,
                  west |-> ShiftR(ourpawns, 9) \cap targets]

pawnCaptureBitboards(bd) ==
    LET ep == IF bd.enpassant > 0 THEN Bit(bd.enpassant) ELSE {}
    IN  IF bd.wtomove
        THEN LET targets == ep \cup bd.black.all
                 ourpawns == bd.white.pawns
             IN  [east |-> ShiftL(ourpawns, 9) \cap notAFile \cap targets,
                  west |-> ShiftL(ourpawns, 7) \cap notHFile \cap targets]
        ELSE LET targets == ep \cup bd.white.all
                 ourpawns == bd.black.pawns
             IN  [east |-> ShiftR(ourpawns, 7) \cap notAFile \cap targets,
                  west |-> ShiftR(ourpawns, 9) \cap notHFile \cap targets]

pawnCaptures(bd, moveList) ==
    LET ew == pawnCaptureBitboards(bd)
        \* bitboards[dir], dir = 0, 1 (swapped for black)
        bitboards == IF bd.wtomove THEN <<ew.east, ew.west>> ELSE <<ew.west, ew.east>>
        from(dir, target) ==
            IF bd.wtomove THEN target - (9 - (dir * 2)) ELSE target + (9 - (dir * 2))
        ofDir(dir) ==
            LET ts == BitSeq(bitboards[dir + 1])
            IN  Flatten([i \in 1..Len(ts) |->
                    AppendPawnMove(bd, Setfrom(Setto(NoMove, ts[i]), from(dir, ts[i])), ts[i])])
    IN  moveList \o ofDir(0) \o ofDir(1)

(***************************************************************************)
(* Knights and sliders.                                                    *)
(***************************************************************************)
genMovesFromTargets(moveList, origin, targets) ==
    LET ts == BitSeq(targets)
    IN  moveList \o [i \in 1..Len(ts) |-> Setto(Setfrom(NoMove, origin), ts[i])]

Ours(bd) == IF bd.wtomove THEN bd.white ELSE bd.black

knightMoves(bd, moveList) ==
    LET ourKnights == BitSeq(Ours(bd).knights)
        noFriendlyPieces == Squares \ Ours(bd).all
    IN  moveList \o Flatten([i \in 1..Len(ourKnights) |->
            genMovesFromTargets(<<>>, ourKnights[i],
                                knightMasks(ourKnights[i]) \cap noFriendlyPieces)])

rookMoves(bd, moveList) ==
    LET ourRooks == BitSeq(Ours(bd).rooks)
        friendlyPieces == Ours(bd).all
        allPieces == bd.white.all \cup bd.black.all
    IN  moveList \o Flatten([i \in 1..Len(ourRooks) |->
            genMovesFromTargets(<<>>, ourRooks[i],
                                magicMovesRook(ourRooks[i], allPieces) \ friendlyPieces)])

bishopMoves(bd, moveList) ==
    LET ourBishops == BitSeq(Ours(bd).bishops)
        friendlyPieces == Ours(bd).all
        allPieces == bd.white.all \cup bd.black.all
    IN  moveList \o Flatten([i \in 1..Len(ourBishops) |->
            genMovesFromTargets(<<>>, ourBishops[i],
                                magicMovesBishop(ourBishops[i], allPieces) \ friendlyPieces)])

queenMoves(bd, moveList) ==
    LET ourQueens == BitSeq(Ours(bd).queens)
        friendlyPieces == Ours(bd).all
        allPieces == bd.white.all \cup bd.black.all
    IN  moveList \o Flatten([i \in 1..Len(ourQueens) |->
            genMovesFromTargets(
                genMovesFromTargets(<<>>, ourQueens[i],
                                    magicMovesBishop(ourQueens[i], allPieces) \ friendlyPieces),
                ourQueens[i],
                magicMovesRook(ourQueens[i], allPieces) \ friendlyPieces)])

(***************************************************************************)
(* King moves and castling.                                                *)
(***************************************************************************)
SetOurs(bd, side) == IF bd.wtomove THEN [bd EXCEPT !.white = side] ELSE [bd EXCEPT !.black = side]

\* b.whiteCanCastleKingside() and the three other accessors of the rights
whiteCanCastleKingside(bd) == bd.castle.wk

whiteCanCastleQueenside(bd) == bd.castle.wq

blackCanCastleKingside(bd) == bd.castle.bk

blackCanCastleQueenside(bd) == bd.castle.bq

\* uint8(bits.TrailingZeros64(kings))
KingLocation(bd) == TrailingZeros64(Ours(bd).kings) % 256

\* allPieces&(1<<5)&(1<<6) == 0, with allPieces := b.white.all & b.black.all
kingsideClear(bd) ==
    LET allPieces == bd.white.all \cap bd.black.all
    IN  IF bd.wtomove
        THEN (allPieces \cap Bit(5) \cap Bit(6)) = {}
        ELSE (allPieces \cap Bit(61) \cap Bit(62)) = {}

queensideClear(bd) ==
    LET allPieces == bd.white.all \cap bd.black.all
    IN  IF bd.wtomove
        THEN (allPieces \cap Bit(3) \cap Bit(2) \cap Bit(1)) = {}
        ELSE (allPieces \cap Bit(57) \cap Bit(58) \cap Bit(59)) = {}

canCastleQueenside(bd) ==
    IF bd.wtomove
    THEN whiteCanCastleQueenside(bd) /\ queensideClear(bd)
            /\ ~anyUnderDirectAttack(bd, TRUE, <<0, 1, 2, 3, 4>>)
    ELSE blackCanCastleQueenside(bd) /\ queensideClear(bd)
            /\ ~anyUnderDirectAttack(bd, FALSE, <<56, 57, 58, 59, 60>>)

canCastleKingside(bd) ==
    IF bd.wtomove
    THEN whiteCanCastleKingside(bd) /\ kingsideClear(bd)
            /\ ~anyUnderDirectAttack(bd, TRUE, <<4, 5, 6, 7>>)
    ELSE blackCanCastleKingside(bd) /\ kingsideClear(bd)
            /\ ~anyUnderDirectAttack(bd, FALSE, <<60, 61, 62, 63>>)

\* the first half of kingMoves: the castling moves
castlingMoves(bd, moveList) ==
    LET ourKingLocation == KingLocation(bd)
        ks == IF canCastleKingside(bd)
              THEN <<Setto(Setfrom(NoMove, ourKingLocation), (ourKingLocation + 2) % 256)>>
              ELSE <<>>
        qs == IF canCastleQueenside(bd)
              THEN <<Setto(Setfrom(NoMove, ourKingLocation), (ourKingLocation - 2) % 256)>>
              ELSE <<>>
    IN  moveList \o ks \o qs

\* ptrToOurBitboards.kings = 0
ClearKings(bd) == SetOurs(bd, [Ours(bd) EXCEPT !.kings = {}])

\* kingMoves without the line that clears the king's bit in the aggregate
ClearKingInAll_Skipped(bd, ourKingLocation) == bd

\* ptrToOurBitboards.all &= ^(1 << ourKingLocation)
ClearKingInAll(bd, ourKingLocation) ==
    SetOurs(bd, [Ours(bd) EXCEPT !.all = @ \cap (Squares \ Bit(ourKingLocation))])

\* kingMoves without the line that puts the king bitboard back
RestoreKings_Forgotten(bd, oldKings) == bd

\* ptrToOurBitboards.kings = oldKings
RestoreKings(bd, oldKings) == SetOurs(bd, [Ours(bd) EXCEPT !.kings = oldKings])

\* kingMoves without the line that sets the king's bit in the aggregate again
RestoreKingInAll_Forgotten(bd, ourKingLocation) == bd

\* ptrToOurBitboards.all |= (1 << ourKingLocation)
RestoreKingInAll(bd, ourKingLocation) ==
    SetOurs(bd, [Ours(bd) EXCEPT !.all = @ \cup Bit(ourKingLocation)])

\* the probing loop: bd is the board as the loop reads it, noFriendlyPieces
\* was computed before the king was taken off
kingTargetMoves(bd, ourKingLocation, noFriendlyPieces, moveList) ==
    LET ts == BitSeq(kingMasks(ourKingLocation) \cap noFriendlyPieces)
    IN  moveList \o Flatten([i \in 1..Len(ts) |->
            IF underDirectAttack(bd, bd.wtomove, ts[i])
            THEN <<>>
            ELSE <<Setto(Setfrom(NoMove, ourKingLocation), ts[i])>>])

\* the whole of kingMoves: the board it leaves and the move list
kingMoves(bd, moveList) ==
    LET ourKingLocation == KingLocation(bd)
        noFriendlyPieces == Squares \ Ours(bd).all
        oldKings == Ours(bd).kings
        probed == ClearKingInAll(ClearKings(bd), ourKingLocation)
    IN  [board |-> RestoreKingInAll(RestoreKings(probed, oldKings), ourKingLocation),
         moves |-> kingTargetMoves(probed, ourKingLocation, noFriendlyPieces,
                                   castlingMoves(bd, moveList))]

\* the board GenerateLegalMoves leaves and the moves it returns
GenerateLegalMoves(bd) ==
    LET k == kingMoves(bd, knightMoves(bd, pawnCaptures(bd, pawnPushes(bd, <<>>))))
    IN  [board |-> k.board,
         moves |-> queenMoves(k.board, bishopMoves(k.board, rookMoves(k.board, k.moves)))]

(***************************************************************************)
(* Positions.  The board is owned by the callers of the generator (FEN     *)
(* parsing and move application), which keep, per side, the aggregate      *)
(* equal to the union of the six piece sets, the sides disjoint, one king  *)
(* each, no pawn on the first or last rank, a castling right only with the *)
(* king and that rook on their home squares, and an en-passant square only *)
(* behind a pawn that has just advanced two ranks.                         *)
(***************************************************************************)
MkSide(p, n, bi, r, q, k) ==
    [pawns |-> p, knights |-> n, bishops |-> bi, rooks |-> r, queens |-> q,
     kings |-> k, all |-> p \cup n \cup bi \cup r \cup q \cup k]

NoRights == [wk |-> FALSE, wq |-> FALSE, bk |-> FALSE, bq |-> FALSE]

AllRights == [wk |-> TRUE, wq |-> TRUE, bk |-> TRUE, bq |-> TRUE]

MkBoard(w, bl, c) ==
    [white |-> w, black |-> bl, wtomove |-> TRUE, enpassant |-> 0, castle |-> c]

\* the standard starting position
StartPosition ==
    MkBoard(MkSide(8..15, {1, 6}, {2, 5}, {0, 7}, {3}, {4}),
            MkSide(48..55, {57, 62}, {58, 61}, {56, 63}, {59}, {60}),
            AllRights)

\* kings and rooks at home, with and without pawns in front of the rooks,
\* under several combinations of rights
CastlePositions ==
    { MkBoard(MkSide(v[1], {}, {}, {0, 7}, {}, {4}),
              MkSide(v[2], {}, {}, {56, 63}, {}, {60}), v[3]) :
        v \in {<<{8, 15}, {48, 55}, AllRights>>,
                <<{}, {}, NoRights>>,
                <<{}, {}, [wk |-> TRUE, wq |-> FALSE, bk |-> FALSE, bq |-> TRUE]>>,
                <<{8, 15}, {48, 55}, [wk |-> FALSE, wq |-> TRUE, bk |-> TRUE, bq |-> FALSE]>>} }

\* bare kings: in the centre, in the corners
KingPositions ==
    { MkBoard(MkSide({}, {}, {}, {}, {}, {k[1]}),
              MkSide({}, {}, {}, {}, {}, {k[2]}), NoRights) :
        k \in {<<27, 54>>, <<0, 63>>} }

\* pawns on the edge files (a5, h4) with an opponent's pawn beside them (b5,
\* g4), pawns one step from promotion (c7, d2) with a knight to capture on the
\* far rank (d8, c1), and pawns on their start squares (e2, e7)
PawnPosition ==
    MkBoard(MkSide({12, 31, 32, 50}, {2}, {}, {}, {}, {6}),
            MkSide({11, 30, 33, 52}, {59}, {}, {}, {}, {62}), NoRights)

BasePositions == {StartPosition, PawnPosition} \cup CastlePositions \cup KingPositions

Kinds == {"pawns", "knights", "bishops", "rooks", "queens"}

\* a piece of kind k on square s added to one side
AddPiece(bd, white, k, s) ==
    LET side == IF white THEN bd.white ELSE bd.black
        new == [[side EXCEPT ![k] = @ \cup {s}] EXCEPT !.all = @ \cup {s}]
    IN  IF white THEN [bd EXCEPT !.white = new] ELSE [bd EXCEPT !.black = new]

\* the squares that can be the en-passant square: the opponent's pawn stands
\* right in front of it and the square and the one behind it are empty
EnPassantSquares(bd) ==
    LET occ == bd.white.all \cup bd.black.all
    IN  IF bd.wtomove
        THEN {t \in 40..47 : (t - 8) \in bd.black.pawns /\ t \notin occ /\ (t + 8) \notin occ}
        ELSE {t \in 16..23 : (t + 8) \in bd.white.pawns /\ t \notin occ /\ (t - 8) \notin occ}

None == [none |-> TRUE]

(***************************************************************************)
(* The state machine: a position is set up, then GenerateLegalMoves runs.  *)
(***************************************************************************)
InitWith(positions, sides, locking) ==
    /\ \E p \in positions, wt \in sides : b = [p EXCEPT !.wtomove = wt]
    /\ moves = <<>>
    /\ before = None
    /\ pc = "setup"
    /\ placed = 0
    /\ query = None
    /\ result = FALSE
    /\ observed = None
    /\ serialized \in locking
    /\ kstate = None

Init == InitWith(BasePositions, BOOLEAN, {TRUE})

Place(white, k, s) ==
    /\ pc = "setup"
    /\ placed < MaxPieces
    /\ b.enpassant = 0
    /\ s \notin (b.white.all \cup b.black.all)
    /\ k = "pawns" => Rank(s) \in 1..6
    /\ b' = AddPiece(b, white, k, s)
    /\ placed' = placed + 1
    /\ UNCHANGED <<moves, before, pc, query, result, observed, serialized, kstate>>

SetEnPassant(t) ==
    /\ pc = "setup"
    /\ b.enpassant = 0
    /\ t \in EnPassantSquares(b)
    /\ b' = [b EXCEPT !.enpassant = t]
    /\ UNCHANGED <<moves, before, pc, placed, query, result, observed, serialized, kstate>>

Generate ==
    /\ pc = "setup"
    /\ LET g == GenerateLegalMoves(b)
       IN  /\ b' = g.board
           /\ moves' = g.moves
    /\ before' = b
    /\ pc' = "returned"
    /\ UNCHANGED <<placed, query, result, observed, serialized, kstate>>

Next ==
    \/ \E white \in BOOLEAN, k \in Kinds, s \in Squares : Place(white, k, s)
    \/ \E t \in Squares : SetEnPassant(t)
    \/ Generate

Spec == Init /\ [][Next]_vars

(***************************************************************************)
(* The attack oracle called on its own (check detection by the callers).   *)
(***************************************************************************)
Probe(byBlack, origin) ==
    /\ pc = "setup"
    /\ query' = [byBlack |-> byBlack, origin |-> origin]
    /\ result' = underDirectAttack(b, byBlack, origin)
    /\ pc' = "probed"
    /\ UNCHANGED <<b, moves, before, placed, observed, serialized, kstate>>

InitOracle == InitWith({PawnPosition} \cup KingPositions, {TRUE}, {TRUE})

NextOracle ==
    \/ \E white \in BOOLEAN, k \in Kinds, s \in Squares : Place(white, k, s)
    \/ \E byBlack \in BOOLEAN, origin \in Squares : Probe(byBlack, origin)

SpecOracle == InitOracle /\ [][NextOracle]_vars

(***************************************************************************)
(* GenerateLegalMoves step by step, with a second thread that reads the    *)
(* same board.  The generators before and after the king's probing only    *)
(* read the board; kingMoves writes it four times.  When the callers       *)
(* serialize (serialized = TRUE) the reader runs only between calls.       *)
(***************************************************************************)
GenBegin ==
    /\ pc = "setup"
    /\ before' = b
    /\ moves' = castlingMoves(b, knightMoves(b, pawnCaptures(b, pawnPushes(b, <<>>))))
    /\ kstate' = [ourKingLocation |-> KingLocation(b),
                  noFriendlyPieces |-> Squares \ Ours(b).all,
                  oldKings |-> Ours(b).kings]
    /\ pc' = "clearKings"
    /\ UNCHANGED <<b, placed, query, result, observed, serialized>>

KingClearKings ==
    /\ pc = "clearKings"
    /\ b' = ClearKings(b)
    /\ pc' = "clearAll"
    /\ UNCHANGED <<moves, before, placed, query, result, observed, serialized, kstate>>

KingClearAll ==
    /\ pc = "clearAll"
    /\ b' = ClearKingInAll(b, kstate.ourKingLocation)
    /\ pc' = "probe"
    /\ UNCHANGED <<moves, before, placed, query, result, observed, serialized, kstate>>

KingProbe ==
    /\ pc = "probe"
    /\ moves' = kingTargetMoves(b, kstate.ourKingLocation, kstate.noFriendlyPieces, moves)
    /\ pc' = "restoreKings"
    /\ UNCHANGED <<b, before, placed, query, result, observed, serialized, kstate>>

KingRestoreKings ==
    /\ pc = "restoreKings"
    /\ b' = RestoreKings(b, kstate.oldKings)
    /\ pc' = "restoreAll"
    /\ UNCHANGED <<moves, before, placed, query, result, observed, serialized, kstate>>

KingRestoreAll ==
    /\ pc = "restoreAll"
    /\ b' = RestoreKingInAll(b, kstate.ourKingLocation)
    /\ pc' = "sliders"
    /\ UNCHANGED <<moves, before, placed, query, result, observed, serialized, kstate>>

GenEnd ==
    /\ pc = "sliders"
    /\ moves' = queenMoves(b, bishopMoves(b, rookMoves(b, moves)))
    /\ pc' = "returned"
    /\ UNCHANGED <<b, before, placed, query, result, observed, serialized, kstate>>

\* the other thread reads the mover's king bitboard and aggregate
Read ==
    /\ serialized => pc \in {"setup", "returned"}
    /\ observed' = [kings |-> Ours(b).kings, all |-> Ours(b).all]
    /\ UNCHANGED <<b, moves, before, pc, placed, query, result, serialized, kstate>>

InitConc == InitWith(KingPositions, BOOLEAN, BOOLEAN)

NextConc ==
    \/ \E white \in BOOLEAN, k \in Kinds, s \in Squares : Place(white, k, s)
    \/ GenBegin
    \/ KingClearKings
    \/ KingClearAll
    \/ KingProbe
    \/ KingRestoreKings
    \/ KingRestoreAll
    \/ GenEnd
    \/ Read

SpecConc == InitConc /\ [][NextConc]_vars

(***************************************************************************)
(* What the rules of chess say a piece attacks, seen from the piece.       *)
(***************************************************************************)
\* the squares the pawn on p attacks: one rank ahead in its direction of
\* advance, on the two adjacent files
PawnAttacks(blackPawn, p) ==
    IF blackPawn THEN Jump(p, -1, -1) \cup Jump(p, 1, -1)
    ELSE Jump(p, -1, 1) \cup Jump(p, 1, 1)

\* some piece of the attacking side (black when byBlack) attacks s
Attacked(bd, byBlack, s) ==
    LET opp == IF byBlack THEN bd.black ELSE bd.white
        occ == bd.white.all \cup bd.black.all
    IN  \/ \E p \in opp.knights : s \in knightMasks(p)
        \/ \E p \in opp.bishops \cup opp.queens : s \in magicMovesBishop(p, occ)
        \/ \E p \in opp.rooks \cup opp.queens : s \in magicMovesRook(p, occ)
        \/ \E p \in opp.kings : s \in kingMasks(p)
        \/ \E p \in opp.pawns : s \in PawnAttacks(byBlack, p)

\* C1: underDirectAttack(side, s) is true exactly when a piece of the
\* attacking side attacks s (knight jump, unobstructed line, adjacent king,
\* pawn one rank ahead on an adjacent file)
C1_OracleExact ==
    pc = "probed" => (result = Attacked(b, query.byBlack, query.origin))

(***************************************************************************)
(* Properties of GenerateLegalMoves, stated on the state it returns in:    *)
(* before is the board at the call, b the board after, moves the result.   *)
(***************************************************************************)
Returned == pc = "returned"

MoveSet == {moves[i] : i \in DOMAIN moves}

\* how many times a move occurs in the returned list
Count(m) == Cardinality({i \in DOMAIN moves : moves[i] = m})

Mover == Ours(before)

Opponent == IF before.wtomove THEN before.black ELSE before.white

Occupied == before.white.all \cup before.black.all

King == CHOOSE k \in Mover.kings : TRUE

\* the board with the mover's king taken off
WithoutKing ==
    LET m == Mover
        side == [m EXCEPT !.kings = {},
                          !.all = m.pawns \cup m.knights \cup m.bishops \cup m.rooks \cup m.queens]
    IN  IF before.wtomove THEN [before EXCEPT !.white = side] ELSE [before EXCEPT !.black = side]

\* the opponent attacks s on the board at the call
OppAttacks(s) == Attacked(before, before.wtomove, s)

\* C2: no one-step king move goes to a square the opponent attacks on the
\* board without the moving king
C2_KingNotIntoAttack ==
    Returned =>
        \A m \in MoveSet :
            (m.from = King /\ m.to \in kingMasks(King))
                => ~Attacked(WithoutKing, before.wtomove, m.to)

\* a line piece gives check, the square behind the king on that line is
\* empty and attacked only through the king, and no king move goes there
C2_Witness ==
    /\ Returned
    /\ \E t \in kingMasks(King) \ Occupied :
          /\ OppAttacks(King)
          /\ ~OppAttacks(t)
          /\ Attacked(WithoutKing, before.wtomove, t)
          /\ \A m \in MoveSet : ~(m.from = King /\ m.to = t)
          /\ \E m \in MoveSet : m.from = King

\* a king move of two files on the king's rank: dir = 1 towards the h-file
\* (king-side), dir = -1 towards the a-file (queen-side)
IsCastle(m, dir) ==
    /\ m.from = King
    /\ m.to = King + 2 * dir
    /\ Rank(m.to) = Rank(King)

\* the king's square, the square it crosses and the square it lands on
KingPath(dir) == {King, King + dir, King + 2 * dir}

HasRight(dir) ==
    IF before.wtomove
    THEN (IF dir = 1 THEN before.castle.wk ELSE before.castle.wq)
    ELSE (IF dir = 1 THEN before.castle.bk ELSE before.castle.bq)

\* f1,g1 / b1,c1,d1 for white, f8,g8 / b8,c8,d8 for black
Between(dir) ==
    IF before.wtomove
    THEN (IF dir = 1 THEN {5, 6} ELSE {1, 2, 3})
    ELSE (IF dir = 1 THEN {61, 62} ELSE {57, 58, 59})

C4_CastleOnlyIfClear ==
    Returned =>
        \A dir \in {1, -1} :
            (\E m \in MoveSet : IsCastle(m, dir))
                => (HasRight(dir) /\ Between(dir) \cap Occupied = {})

HomeKing == IF before.wtomove THEN 4 ELSE 60

HomeRook(dir) ==
    IF before.wtomove THEN (IF dir = 1 THEN 7 ELSE 0) ELSE (IF dir = 1 THEN 63 ELSE 56)

\* C5: with king and rook at home, the right set, the squares between them
\* empty and no square of the king's path attacked, the castling move is
\* returned exactly once
C5_CastleWhenEligible ==
    Returned =>
        \A dir \in {1, -1} :
            ( /\ King = HomeKing
              /\ HomeRook(dir) \in Mover.rooks
              /\ HasRight(dir)
              /\ Between(dir) \cap Occupied = {}
              /\ \A s \in KingPath(dir) : ~OppAttacks(s) )
                => Count([from |-> King, to |-> King + 2 * dir, promote |-> Nothing]) = 1

\* C6: the call leaves every field of the board as it was
C6_BoardUnchanged == Returned => b = before

\* the king had targets, one of them was skipped as attacked and one was
\* taken, and the king is back on the board
C6_Witness ==
    /\ Returned
    /\ b.white.kings # {} /\ b.black.kings # {}
    /\ \E t \in kingMasks(King) \ Mover.all : \A m \in MoveSet : ~(m.from = King /\ m.to = t)
    /\ \E m \in MoveSet : m.from = King

\* C7: on the starting position exactly 20 moves are returned
C7_StartPositionTwenty ==
    (Returned /\ before = StartPosition) => Len(moves) = 20

\* the capture moves in the result: from a pawn of the mover to another file
CapturePairs ==
    {<<m.from, m.to>> : m \in {x \in MoveSet : x.from \in Mover.pawns /\ File(x.to) # File(x.from)}}

\* origin holds a pawn of the mover, destination is one rank forward on an
\* adjacent file and holds an opponent's piece or is the en-passant square
ExpectedCapturePairs ==
    {od \in Mover.pawns \X Squares :
        /\ od[2] \in PawnAttacks(~before.wtomove, od[1])
        /\ (od[2] \in Opponent.all \/ (before.enpassant > 0 /\ od[2] = before.enpassant))}

\* C8: the pawn captures are exactly the diagonal steps forward onto an
\* opponent's piece or onto the en-passant square
C8_PawnCapturesExact == Returned => CapturePairs = ExpectedCapturePairs

\* an en-passant capture onto the empty target square is in the result
C8_Witness ==
    /\ Returned
    /\ before.enpassant > 0
    /\ before.enpassant \notin Occupied
    /\ \E m \in MoveSet : m.from \in Mover.pawns /\ m.to = before.enpassant

FarRank == IF before.wtomove THEN 56..63 ELSE 0..7

Forward == IF before.wtomove THEN 8 ELSE -8

\* the single pushes and captures the position allows, as (origin, destination)
ExpectedPawnSteps ==
    ExpectedCapturePairs \cup
    {<<o, o + Forward>> : o \in {p \in Mover.pawns : (p + Forward) \in Squares \ Occupied}}

\* C9: a pawn step onto the far rank is returned four times, once with each
\* of knight, bishop, rook and queen, and never without a promotion piece;
\* every other pawn move carries no promotion piece
C9_PromotionFanOut ==
    Returned =>
        /\ \A od \in ExpectedPawnSteps :
              od[2] \in FarRank =>
                  /\ \A p \in Knight..Queen :
                        Count([from |-> od[1], to |-> od[2], promote |-> p]) = 1
                  /\ Count([from |-> od[1], to |-> od[2], promote |-> Nothing]) = 0
        /\ \A m \in MoveSet :
              m.from \in Mover.pawns =>
                  IF m.to \in FarRank
                  THEN m.promote \in Knight..Queen
                  ELSE m.promote = Nothing

\* a push and a capture onto the far rank, both returned as promotions
C9_Witness ==
    /\ Returned
    /\ \E m \in MoveSet :
          m.from \in Mover.pawns /\ m.to \in FarRank /\ File(m.to) = File(m.from)
    /\ \E m \in MoveSet :
          m.from \in Mover.pawns /\ m.to \in FarRank /\ File(m.to) # File(m.from)
    /\ \E m \in MoveSet :
          m.from \in Mover.pawns /\ m.to = m.from + 2 * Forward

(***************************************************************************)
(* Two threads on one board.                                               *)
(***************************************************************************)
\* C10: when the calls on a board are serialized, no reader sees the
\* mover's king bitboard empty or the king's square missing from the
\* aggregate (without serialization a reader can: C10_Witness)
C10_SerializedSeesKing ==
    (serialized /\ observed # None) =>
        (observed.kings # {} /\ observed.kings \subseteq observed.all)

\* unserialized, the reader saw the king bitboard empty and the king's
\* square missing from the aggregate although the position has a king
C10_Witness ==
    /\ ~serialized
    /\ observed # None
    /\ kstate # None
    /\ kstate.oldKings # {}
    /\ observed.kings = {}
    /\ kstate.ourKingLocation \notin observed.all

\* the step-by-step run returns what the call as a whole returns
ConcAgreesWithCall ==
    Returned => (moves = GenerateLegalMoves(before).moves /\ b = before)

====
